---- MODULE Spec2Model ----
(***************************************************************************)
(* Model of bookshelf-validators (src/index.js): the Validator's six rule  *)
(* operations, the fmt message formatter and the validate() aggregate,     *)
(* with the promises they return and the lookups unique() leaves in flight.*)
(* Strings are sequences of one-character strings, so that fmt's scan for  *)
(* placeholders is modelled on the text it really works on.                *)
(***************************************************************************)
EXTENDS Integers, Sequences, FiniteSets, TLC

VARIABLES
    record,       \* the model being validated: attribute name -> value
    errors,       \* the array in the model's 'errors' attribute
    collection,   \* the persisted rows, in the store's scan order
    validations,  \* the rule map the validator was constructed with
    promises,     \* the rule invocations issued, in the order issued
    completed,    \* the invocations whose lookup has completed, in that order
    vstate,       \* the promise validate() returned: idle, settling, resolved, rejected
    verr,         \* the error it was rejected with
    started,      \* how many times validate() has been called
    vhistory      \* the outcome of every validate() call that has completed

vars ==
    <<record, errors, collection, validations, promises, completed, vstate, verr,
      started, vhistory>>

(***************************************************************************)
(* Bounds of the model.                                                    *)
(***************************************************************************)
\* longest run of "x" characters among the attribute values tried
MaxLen == 4
\* most rows in the persisted collection (ids are 1..MaxRows)
MaxRows == 2
\* most direct calls of one rule operation in a run
MaxCalls == 2
\* most validate() calls in a run
MaxValidates == 2

(***************************************************************************)
(* Numbers the tests pass as length bounds.                                *)
(***************************************************************************)
ShortBound == 3
LongBound == 10

(***************************************************************************)
(* JavaScript values: a type tag, a number and a string, so that any two   *)
(* values can be compared.                                                 *)
(***************************************************************************)
Val(t, n, s) == [t |-> t, n |-> n, s |-> s]
Undefined == Val("undefined", 0, <<>>)
Null == Val("null", 0, <<>>)
False == Val("boolean", 0, <<>>)
True == Val("boolean", 1, <<>>)
NaN == Val("NaN", 0, <<>>)
Num(k) == Val("number", k, <<>>)
Str(s) == Val("string", 0, s)
\* /^[a-z]+$/ (src/test/test.js:240) and /^name-/ (src/test/db.js:19)
LowerRegex == Val("regexp", 0, <<>>)
PrefixRegex == Val("regexp", 1, <<"n", "a", "m", "e", "-">>)

\* a presence check that knows only undefined and null
FalsyNullish(v) == v.t \in {"undefined", "null"}

\* !value
Falsy(v) ==
    \/ v.t \in {"undefined", "null", "NaN"}
    \/ v.t = "boolean" /\ v.n = 0
    \/ v.t = "number" /\ v.n = 0
    \/ v.t = "string" /\ v.s = <<>>

\* a === b   (NaN is not equal to itself)
StrictEq(a, b) == a.t # "NaN" /\ a = b

\* value.length: defined for strings only among the values modelled
Length(v) == IF v.t = "string" THEN Num(Len(v.s)) ELSE Undefined

\* a < b on numbers; a comparison with undefined or NaN is false
JsLess(a, b) == a.t = "number" /\ b.t = "number" /\ a.n < b.n

Digit(d) == <<"0", "1", "2", "3", "4", "5", "6", "7", "8", "9">>[d + 1]

RECURSIVE NumToString(_)
NumToString(n) ==
    IF n < 10 THEN <<Digit(n)>> ELSE NumToString(n \div 10) \o <<Digit(n % 10)>>

\* String(v), as String.prototype.replace applies it to its replacement
JsString(v) ==
    CASE v.t = "string" -> v.s
      [] v.t = "number" -> NumToString(v.n)
      [] v.t = "undefined" -> <<"u", "n", "d", "e", "f", "i", "n", "e", "d">>
      [] v.t = "null" -> <<"n", "u", "l", "l">>
      [] v.t = "NaN" -> <<"N", "a", "N">>
      [] v.t = "boolean" ->
           IF v.n = 1 THEN <<"t", "r", "u", "e">> ELSE <<"f", "a", "l", "s", "e">>
      [] OTHER -> <<"/", "r", "e", "/">>

Lower ==
    {"a", "b", "c", "d", "e", "f", "g", "h", "i", "j", "k", "l", "m",
     "n", "o", "p", "q", "r", "s", "t", "u", "v", "w", "x", "y", "z"}

IsPrefix(p, s) == Len(p) <= Len(s) /\ SubSeq(s, 1, Len(p)) = p

\* string.match(regexp) is non-null
Matches(s, re) ==
    IF re.n = 0
    THEN Len(s) > 0 /\ \A i \in 1..Len(s) : s[i] \in Lower
    ELSE IsPrefix(re.s, s)

(***************************************************************************)
(* fmt (src/index.js:276-289).                                             *)
(***************************************************************************)
\* /(#{[^}]*})/.exec(string): the leftmost "#{" that some "}" follows, up to
\* the first "}" after it
ExecPlaceholder(string) ==
    LET starts == {i \in 1..Len(string) :
                     /\ i + 2 <= Len(string)
                     /\ string[i] = "#"
                     /\ string[i + 1] = "{"
                     /\ \E j \in (i + 2)..Len(string) : string[j] = "}"}
    IN IF starts = {}
       THEN [found |-> FALSE, first |-> 0, last |-> 0]
       ELSE LET i == CHOOSE k \in starts : \A m \in starts : k <= m
                j == CHOOSE k \in (i + 2)..Len(string) :
                        /\ string[k] = "}"
                        /\ \A m \in (i + 2)..(k - 1) : string[m] # "}"
            IN [found |-> TRUE, first |-> i, last |-> j]

\* the replacement text of String.prototype.replace for a string pattern:
\* "$$" is a dollar sign, "$&" the matched text and "$" with an apostrophe
\* the text after the match; any other character stands for itself (the
\* pattern for the text before the match needs a grave accent, which no
\* value tried here contains)
RECURSIVE GetSubstitution(_, _, _)
GetSubstitution(repl, matched, after) ==
    IF repl = <<>> THEN <<>>
    ELSE IF Len(repl) >= 2 /\ repl[1] = "$" /\ repl[2] \in {"$", "&", "'"}
         THEN (CASE repl[2] = "$" -> <<"$">>
                 [] repl[2] = "&" -> matched
                 [] OTHER -> after)
              \o GetSubstitution(SubSeq(repl, 3, Len(repl)), matched, after)
         ELSE <<repl[1]>> \o GetSubstitution(Tail(repl), matched, after)

\* string.replace(match[0], values[i]): the first occurrence of the matched
\* text is the match itself, since exec found the leftmost placeholder
ReplaceAt(string, m, value) ==
    LET before == SubSeq(string, 1, m.first - 1)
        matched == SubSeq(string, m.first, m.last)
        after == SubSeq(string, m.last + 1, Len(string))
    IN before \o GetSubstitution(JsString(value), matched, after) \o after

RECURSIVE fmtLoop(_, _, _)
fmtLoop(string, values, i) ==
    LET m == ExecPlaceholder(string)
    IN IF ~m.found THEN string
       ELSE fmtLoop(ReplaceAt(string, m,
                              IF i <= Len(values) THEN values[i] ELSE Undefined),
                    values, i + 1)

fmt(string, values) == fmtLoop(string, values, 1)

TplRequired == <<"#", "{", "a", "t", "t", "r", "i", "b", "u", "t", "e", "}", " ", "i", "s", " ", "r", "e", "q", "u", "i", "r", "e", "d">>
TplMatch == <<"#", "{", "a", "t", "t", "r", "i", "b", "u", "t", "e", "}", " ", "m", "u", "s", "t", " ", "m", "a", "t", "c", "h", " ", "#", "{", "t", "e", "s", "t", "V", "a", "l", "u", "e", "}">>
TplMinLength == <<"#", "{", "a", "t", "t", "r", "i", "b", "u", "t", "e", "}", " ", "m", "u", "s", "t", " ", "b", "e", " ", "a", "t", " ", "l", "e", "a", "s", "t", " ", "#", "{", "t", "e", "s", "t", "V", "a", "l", "u", "e", "}", " ", "c", "h", "a", "r", "a", "c", "t", "e", "r", "s", " ", "l", "o", "n", "g">>
TplMaxLength == <<"#", "{", "a", "t", "t", "r", "i", "b", "u", "t", "e", "}", " ", "m", "u", "s", "t", " ", "b", "e", " ", "a", "t", " ", "m", "o", "s", "t", " ", "#", "{", "t", "e", "s", "t", "V", "a", "l", "u", "e", "}", " ", "c", "h", "a", "r", "a", "c", "t", "e", "r", "s", " ", "l", "o", "n", "g">>
TplPattern == <<"'", "#", "{", "v", "a", "l", "u", "e", "}", "'", " ", "i", "s", " ", "n", "o", "t", " ", "a", " ", "v", "a", "l", "i", "d", " ", "#", "{", "a", "t", "t", "r", "i", "b", "u", "t", "e", "}">>
TplUnique == <<"#", "{", "a", "t", "t", "r", "i", "b", "u", "t", "e", "}", " ", "m", "u", "s", "t", " ", "b", "e", " ", "u", "n", "i", "q", "u", "e">>

(***************************************************************************)
(* The record and the persisted collection.                                *)
(***************************************************************************)
NameAttr == <<"n", "a", "m", "e">>
LocationAttr == <<"l", "o", "c", "a", "t", "i", "o", "n">>
IdAttr == <<"i", "d">>

\* record.get(attribute)
Get(rec, attribute) ==
    IF attribute \in DOMAIN rec THEN rec[attribute] ELSE Undefined

NoRow == [isNull |-> TRUE, id |-> Undefined]

\* klass.collection().query({ where: query }).fetchOne(): the first row, in
\* the store's scan order, whose column equals the value; null when none does
fetchOne(rows, attribute, value) ==
    LET hits == {i \in DOMAIN rows : Get(rows[i], attribute) = value}
    IN IF hits = {} THEN NoRow
       ELSE [isNull |-> FALSE,
             id |-> Get(rows[CHOOSE i \in hits : \A j \in hits : i <= j], IdAttr)]

(***************************************************************************)
(* Promises.  A rule operation returns a resolved or a rejected promise,   *)
(* or one pending on a lookup; or it throws before returning anything.     *)
(***************************************************************************)
Promise(state, reason, attribute, value) ==
    [state |-> state, reason |-> reason, attribute |-> attribute, value |-> value,
     infra |-> FALSE]

\* Promise.resolve()
Resolved == Promise("resolved", <<>>, <<>>, Undefined)
\* Promise.reject(new Error(message))
Rejected(message) == Promise("rejected", JsString(message), <<>>, Undefined)
\* a TypeError thrown by the call itself
Threw == Promise("threw", <<>>, <<>>, Undefined)
\* fetchOne().then(...): the lookup is in flight, the message is captured
Pending(message, attribute, value) ==
    Promise("pending", JsString(message), attribute, value)
\* a value that is no promise (settle treats it as fulfilled)
NotAPromise == Promise("value", <<>>, <<>>, Undefined)

OrDefault(message, default) == IF Falsy(message) THEN Str(default) ELSE message

required(rec, attribute, testValue, message) ==
    LET value == Get(rec, attribute)
        msg == OrDefault(message, fmt(TplRequired, <<Str(attribute)>>))
    IN IF Falsy(value) THEN Rejected(msg) ELSE Resolved

match(rec, attribute, testValue, message) ==
    LET value == Get(rec, attribute)
        matchValue == Get(rec, JsString(testValue))
        msg == OrDefault(message, fmt(TplMatch, <<Str(attribute), testValue>>))
    IN IF ~StrictEq(value, matchValue) THEN Rejected(msg) ELSE Resolved

minLength(rec, attribute, testValue, message) ==
    LET value == Get(rec, attribute)
        msg == OrDefault(message, fmt(TplMinLength, <<Str(attribute), testValue>>))
    IN IF Falsy(value) THEN Resolved
       ELSE IF JsLess(Length(value), testValue) THEN Rejected(msg) ELSE Resolved

maxLength(rec, attribute, testValue, message) ==
    LET value == Get(rec, attribute)
        msg == OrDefault(message, fmt(TplMaxLength, <<Str(attribute), testValue>>))
    IN IF Falsy(value) THEN Resolved
       ELSE IF JsLess(testValue, Length(value)) THEN Rejected(msg) ELSE Resolved

pattern(rec, attribute, testValue, message) ==
    LET value == Get(rec, attribute)
        msg == OrDefault(message, fmt(TplPattern, <<value, Str(attribute)>>))
    IN IF Falsy(value) THEN Resolved
       ELSE IF value.t # "string" THEN Threw
       ELSE IF ~Matches(value.s, testValue) THEN Rejected(msg) ELSE Resolved

unique(rec, attribute, testValue, message) ==
    LET value == Get(rec, attribute)
        msg == OrDefault(message, fmt(TplUnique, <<Str(attribute)>>))
    IN IF Falsy(value) THEN Resolved ELSE Pending(msg, attribute, value)

\* the callback unique() chains on the lookup (src/index.js:257-263)
uniqueThen(rec, p, found) ==
    IF ~found.isNull /\ ~StrictEq(found.id, Get(rec, IdAttr))
    THEN [p EXCEPT !.state = "rejected"]
    ELSE [p EXCEPT !.state = "resolved", !.reason = <<>>]

(***************************************************************************)
(* validate (src/index.js:57-92).                                          *)
(***************************************************************************)
\* a declared rule value: a raw test value, or a plain { testValue, message }
Raw(v) == [plain |-> FALSE, testValue |-> v, message |-> Undefined]
Obj(v, message) == [plain |-> TRUE, testValue |-> v, message |-> message]

KnownRules == {"required", "match", "minLength", "maxLength", "pattern", "unique"}
\* properties every object inherits, which this[validationName] also finds
InheritedMethods == {"toString"}

\* this[validationName](attr, testValue, message)
Invoke(rec, validationName, attribute, testValue, message) ==
    CASE validationName = "required" -> required(rec, attribute, testValue, message)
      [] validationName = "match" -> match(rec, attribute, testValue, message)
      [] validationName = "minLength" -> minLength(rec, attribute, testValue, message)
      [] validationName = "maxLength" -> maxLength(rec, attribute, testValue, message)
      [] validationName = "pattern" -> pattern(rec, attribute, testValue, message)
      [] validationName = "unique" -> unique(rec, attribute, testValue, message)
      [] validationName \in InheritedMethods -> NotAPromise
      [] OTHER -> Threw

\* one issued invocation: its arguments and the promise it returned
Call(rule, attribute, testValue, message, p) ==
    [rule |-> rule, attribute |-> attribute, testValue |-> testValue,
     message |-> message, p |-> p]

\* the two nested reduce/concat loops: every (attribute, rule) of the map, in
\* Object.keys order, with the test value and message of lines 61-67 unpacked
RECURSIVE Entries(_)
Entries(vs) ==
    IF vs = <<>> THEN <<>>
    ELSE [i \in 1..Len(Head(vs).rules) |->
             LET r == Head(vs).rules[i]
             IN [attribute |-> Head(vs).attribute,
                 rule |-> r.name,
                 testValue |-> r.declared.testValue,
                 message |-> IF r.declared.plain THEN r.declared.message
                             ELSE Undefined]]
         \o Entries(Tail(vs))

\* a dispatch that waits for each promise before it issues the next call: it
\* has issued nothing past the first pending one when validate starts to wait
RECURSIVE DispatchSerial(_, _)
DispatchSerial(rec, entries) ==
    IF entries = <<>> THEN [threw |-> FALSE, calls |-> <<>>]
    ELSE LET e == Head(entries)
             p == Invoke(rec, e.rule, e.attribute, e.testValue, e.message)
             c == Call(e.rule, e.attribute, e.testValue, e.message, p)
         IN IF p.state = "threw" THEN [threw |-> TRUE, calls |-> <<c>>]
            ELSE IF p.state = "pending" THEN [threw |-> FALSE, calls |-> <<c>>]
            ELSE LET rest == DispatchSerial(rec, Tail(entries))
                 IN [threw |-> rest.threw, calls |-> <<c>> \o rest.calls]

\* the calls of line 69, one after the other, until one throws
RECURSIVE Dispatch(_, _)
Dispatch(rec, entries) ==
    IF entries = <<>> THEN [threw |-> FALSE, calls |-> <<>>]
    ELSE LET e == Head(entries)
             p == Invoke(rec, e.rule, e.attribute, e.testValue, e.message)
             c == Call(e.rule, e.attribute, e.testValue, e.message, p)
         IN IF p.state = "threw" THEN [threw |-> TRUE, calls |-> <<c>>]
            ELSE LET rest == Dispatch(rec, Tail(entries))
                 IN [threw |-> rest.threw, calls |-> <<c>> \o rest.calls]

IsPending(c) == c.p.state = "pending"
IsRejected(c) == c.p.state = "rejected"

\* a join that gives up at the first rejection, as Promise.all does
AllOrFirstRejection(calls) ==
    \/ \A i \in DOMAIN calls : ~IsPending(calls[i])
    \/ \E i \in DOMAIN calls : IsRejected(calls[i])

\* a join whose callback runs only when every promise is fulfilled
AllFulfilled(calls) ==
    \A i \in DOMAIN calls : calls[i].p.state \in {"resolved", "value"}

\* Promise.settle(validations) has every promise settled
AllSettled(calls) == \A i \in DOMAIN calls : ~IsPending(calls[i])

RECURSIVE Reasons(_)
Reasons(calls) ==
    IF calls = <<>> THEN <<>>
    ELSE (IF IsRejected(Head(calls)) THEN <<Head(calls).p.reason>> ELSE <<>>)
         \o Reasons(Tail(calls))

\* the messages collected last failure first
MessagesReversed(calls) ==
    LET r == Reasons(calls) IN [k \in 1..Len(r) |-> r[Len(r) + 1 - k]]

\* results.filter(isRejected).map(error().message)
Messages(calls) == Reasons(calls)

NoError == [kind |-> "none", messages |-> <<>>]
TypeError == [kind |-> "TypeError", messages |-> <<>>]
MessagesError(messages) == [kind |-> "Error", messages |-> messages]

Outcome(state, err, calls) ==
    [state |-> state, err |-> err, calls |-> calls,
     infra |-> \E i \in DOMAIN calls : calls[i].p.infra]

\* the message of the error a failed lookup rejects with
LookupError == <<"S", "Q", "L", "I", "T", "E", "_", "B", "U", "S", "Y">>

(***************************************************************************)
(* The inputs tried.                                                       *)
(***************************************************************************)
XS(k) == [i \in 1..k |-> "x"]

NameValues ==
    {Undefined, Null, False, True, Num(0), Num(5), NaN}
    \cup {Str(XS(k)) : k \in 0..MaxLen}
    \cup {Str(XS(LongBound + 1)),
          Str(<<"!">>), Str(<<"#", "{", "x", "}">>), Str(<<"$", "&">>),
          Str(<<"n", "a", "m", "e", "-", "x">>)}

LocationValues == {Undefined, Str(XS(1))}

Ids == 1..MaxRows

Record(name, location, id) ==
    (NameAttr :> name) @@ (LocationAttr :> location) @@ (IdAttr :> id)

Records ==
    {Record(n, l, i) : n \in NameValues, l \in LocationValues,
                       i \in {Undefined} \cup {Num(k) : k \in Ids}}

\* every persisted row holds the same name and location, so any two rows clash
Rows == {Record(Str(XS(1)), Str(XS(1)), Num(i)) : i \in Ids}

\* the persisted rows in the store's scan order, no id twice
Collections ==
    UNION {{rows \in [1..n -> Rows] :
              \A i, j \in 1..n : i # j => rows[i][IdAttr] # rows[j][IdAttr]}
           : n \in 0..MaxRows}

CustomMessage == Str(<<"n", "a", "m", "e", " ", "m", "u", "s", "t", " ", "b", "e", " ", "l", "e", "s", "s", " ", "t", "h", "a", "n", " ", "1", "1", " ", "c", "h", "a", "r", "a", "c", "t", "e", "r", "s", " ", "l", "o", "n", "g">>)
OtherMessage == Str(<<"t", "a", "k", "e", "n">>)

Rule(name, declared) == [name |-> name, declared |-> declared]
Attr(attribute, rules) == [attribute |-> attribute, rules |-> rules]

\* the map of src/test/db.js:13-25
ModelValidations ==
    <<Attr(LocationAttr, <<Rule("required", Raw(True))>>),
      Attr(NameAttr, <<Rule("pattern", Raw(PrefixRegex)),
                       Rule("maxLength", Obj(Num(LongBound), CustomMessage))>>)>>

\* two lookups in flight at once, with rules that settle at once around them
UniqueValidations ==
    <<Attr(NameAttr, <<Rule("unique", Raw(True)),
                       Rule("minLength", Raw(Num(ShortBound))),
                       Rule("match", Raw(Str(LocationAttr)))>>),
      Attr(LocationAttr, <<Rule("unique", Obj(True, OtherMessage))>>)>>

\* a rule name that is no property of the validator, after a lookup is issued
BogusValidations ==
    <<Attr(NameAttr, <<Rule("unique", Raw(True)),
                       Rule("bogus", Raw(True)),
                       Rule("required", Raw(True))>>)>>

\* a rule name that is an inherited method
InheritedValidations ==
    <<Attr(LocationAttr, <<Rule("required", Raw(True))>>),
      Attr(NameAttr, <<Rule("toString", Raw(True)),
                       Rule("pattern", Raw(LowerRegex))>>)>>

RuleMaps ==
    {ModelValidations, UniqueValidations, BogusValidations, InheritedValidations}

\* the arguments the direct calls are made with
TestValues(rule) ==
    CASE rule \in {"minLength", "maxLength"} -> {Num(ShortBound), Num(LongBound)}
      [] rule = "pattern" -> {LowerRegex, PrefixRegex}
      [] rule = "match" -> {Str(LocationAttr)}
      [] OTHER -> {Undefined}

CallMessages == {Undefined, CustomMessage}

(***************************************************************************)
(* The state machine.                                                      *)
(***************************************************************************)
InitRecord ==
    /\ record \in Records
    /\ errors = <<>>
    /\ collection \in Collections
    /\ promises = <<>>
    /\ completed = <<>>
    /\ vstate = "idle"
    /\ verr = NoError
    /\ started = 0
    /\ vhistory = <<>>

\* new Validator(model, model.validations)
Init == InitRecord /\ validations \in RuleMaps

\* new Validator(model)
InitRules == InitRecord /\ validations = <<>>

\* rule operations that push their failure messages into the 'errors' array
RuleFramePushesErrors ==
    /\ record' = record
    /\ errors' = errors \o Messages(promises')

\* no rule operation, and no step of validate, calls record.set or touches
\* the 'errors' array: they only call record.get (src/index.js:57-264)
RuleFrame == UNCHANGED <<record, errors>>

SameCall(c, rule, attribute, testValue, message) ==
    /\ c.rule = rule
    /\ c.attribute = attribute
    /\ c.testValue = testValue
    /\ c.message = message

\* validator.<rule>(attribute, testValue, message), called directly; a run
\* repeats one call
CallRule(rule, attribute, testValue, message) ==
    /\ Len(promises) < MaxCalls
    /\ \A i \in DOMAIN promises :
          SameCall(promises[i], rule, attribute, testValue, message)
    /\ promises' = Append(promises,
          Call(rule, attribute, testValue, message,
               Invoke(record, rule, attribute, testValue, message)))
    /\ RuleFrame
    /\ UNCHANGED <<collection, validations, completed, vstate, verr, started, vhistory>>

\* validator.validate(), up to the call of Promise.settle
Validate ==
    /\ vstate # "settling"
    /\ started < MaxValidates
    /\ AllSettled(promises)
    /\ LET d == Dispatch(record, Entries(validations))
       IN /\ promises' = d.calls
          /\ IF d.threw
             THEN /\ vstate' = "rejected"
                  /\ verr' = TypeError
                  /\ vhistory' = Append(vhistory, Outcome("rejected", TypeError, d.calls))
             ELSE /\ vstate' = "settling"
                  /\ verr' = NoError
                  /\ vhistory' = vhistory
    /\ completed' = <<>>
    /\ started' = started + 1
    /\ RuleFrame
    /\ UNCHANGED <<collection, validations>>

\* a lookup returns and unique's callback runs
FetchOneReturns(i) ==
    /\ IsPending(promises[i])
    /\ promises' = [promises EXCEPT ![i].p =
          uniqueThen(record, @, fetchOne(collection, @.attribute, @.value))]
    /\ completed' = Append(completed, i)
    /\ RuleFrame
    /\ UNCHANGED <<collection, validations, vstate, verr, started, vhistory>>

\* a lookup fails in the persistence layer: the promise is rejected with the
\* layer's error
FetchOneFails(i) ==
    /\ IsPending(promises[i])
    /\ promises' = [promises EXCEPT ![i].p.state = "rejected",
                                    ![i].p.reason = LookupError,
                                    ![i].p.infra = TRUE]
    /\ completed' = Append(completed, i)
    /\ RuleFrame
    /\ UNCHANGED <<collection, validations, vstate, verr, started, vhistory>>

\* the callback of Promise.settle(validations).then (src/index.js:74-90)
Settle ==
    /\ vstate = "settling"
    /\ AllSettled(promises)
    /\ LET messages == Messages(promises)
       IN IF Len(messages) > 0
          THEN /\ vstate' = "rejected"
               /\ verr' = MessagesError(messages)
               /\ vhistory' = Append(vhistory,
                     Outcome("rejected", MessagesError(messages), promises))
          ELSE /\ vstate' = "resolved"
               /\ verr' = NoError
               /\ vhistory' = Append(vhistory, Outcome("resolved", NoError, promises))
    /\ RuleFrame
    /\ UNCHANGED <<collection, validations, promises, completed, started>>

Lookup ==
    \/ \E i \in DOMAIN promises : FetchOneReturns(i)
    \/ \E i \in DOMAIN promises : FetchOneFails(i)

Next ==
    \/ Validate
    \/ Lookup
    \/ Settle

Spec == Init /\ [][Next]_vars

NextRules ==
    \/ \E rule \in KnownRules, attribute \in {NameAttr, LocationAttr} :
          \E testValue \in TestValues(rule), message \in CallMessages :
             CallRule(rule, attribute, testValue, message)
    \/ Lookup

SpecRules == InitRules /\ [][NextRules]_vars

\* the event loop runs every callback that is ready, and the claim about
\* completion assumes every lookup returns or fails
FairSpec == Spec /\ WF_vars(Lookup) /\ WF_vars(Settle)

(***************************************************************************)
(* Properties.                                                             *)
(***************************************************************************)
InFlight == {i \in DOMAIN promises : promises[i].p.state = "pending"}
Failed == {i \in DOMAIN promises : promises[i].p.state = "rejected"}
NoPending == InFlight = {}

\* the k-th failed invocation in the order issued
KthFailed(k) == CHOOSE i \in Failed : Cardinality({j \in Failed : j < i}) = k - 1

\* validate() has completed through the join, not through a thrown error
Joined == vstate \in {"resolved", "rejected"} /\ verr.kind # "TypeError"

\* the invocations issued are the declared rules, in declaration order
IssuedAsDeclared ==
    LET es == Entries(validations)
    IN /\ Len(promises) = Len(es)
       /\ \A i \in DOMAIN es :
             /\ promises[i].rule = es[i].rule
             /\ promises[i].attribute = es[i].attribute

Value(c) == Get(record, c.attribute)

\* a row other than the current record holds the attribute value
OtherRowHas(attribute, value) ==
    \E k \in DOMAIN collection :
       /\ collection[k][attribute] = value
       /\ collection[k][IdAttr] # record[IdAttr]

Supplied(c) == c.message # Undefined

UniqueText(c) ==
    IF Supplied(c) THEN c.message.s
    ELSE c.attribute \o <<" ", "m", "u", "s", "t", " ", "b", "e", " ", "u", "n", "i", "q", "u", "e">>

FalsyValues == {Undefined, Null, Num(0), Str(<<>>), NaN, False}

\* C3: unique on a truthy value fails with "<attribute> must be unique" when a
\* persisted row other than the current record has the value, and passes when
\* none has; on a falsy value it passes without a lookup.
C3_UniqueAgainstOtherRows ==
    \A i \in DOMAIN promises :
       LET c == promises[i]
       IN c.rule = "unique" =>
             /\ Value(c) \in FalsyValues => c.p.state = "resolved"
             /\ (Value(c) \notin FalsyValues /\ c.p.state # "pending" /\ ~c.p.infra) =>
                   IF OtherRowHas(c.attribute, Value(c))
                   THEN c.p.state = "rejected" /\ c.p.reason = UniqueText(c)
                   ELSE c.p.state = "resolved"

HasUnknownRule ==
    \E i \in DOMAIN Entries(validations) :
       Entries(validations)[i].rule \notin KnownRules

\* C5: when the rule map declares a rule name outside the six rules, validate()
\* fails at once with an error that is no message list: it never waits for the
\* other rules, never succeeds, and never reports a list of messages.
C5_UnknownRuleIsConfigurationError ==
    (HasUnknownRule /\ started > 0) =>
        /\ vstate = "rejected"
        /\ verr.kind = "TypeError"

Comparable(i, j) == ~vhistory[i].infra /\ ~vhistory[j].infra

CompletesOnceStep ==
    /\ \A i \in DOMAIN promises :
          (started' = started /\ promises[i].p.state # "pending") =>
             (i \in DOMAIN promises' /\ promises'[i] = promises[i])
    /\ (started' = started /\ vstate \in {"resolved", "rejected"}) =>
          (vstate' = vstate /\ verr' = verr /\ vhistory' = vhistory)
    /\ Len(vhistory') <= started'
    /\ Len(vhistory') <= Len(vhistory) + 1

\* C7: as long as every lookup returns or fails, every rule invocation and
\* every validate() call completes, and nothing that has completed completes
\* again or changes its outcome.
C7_CompletesExactlyOnce ==
    /\ [][CompletesOnceStep]_vars
    /\ []<>(NoPending /\ vstate # "settling" /\ Len(vhistory) = started)

\* C7 witness: validate() has completed after waiting for two lookups.
C7_Witness ==
    /\ vstate \in {"resolved", "rejected"}
    /\ verr.kind # "TypeError"
    /\ Len(completed) = 2
    /\ Len(vhistory) = started

Quote == <<"'">>

\* the default message, written out from its parts
DefaultText(c) ==
    CASE c.rule = "required" ->
           c.attribute \o <<" ", "i", "s", " ", "r", "e", "q", "u", "i", "r", "e", "d">>
      [] c.rule = "match" ->
           c.attribute \o <<" ", "m", "u", "s", "t", " ", "m", "a", "t", "c", "h", " ">>
           \o c.testValue.s
      [] c.rule = "minLength" ->
           c.attribute \o <<" ", "m", "u", "s", "t", " ", "b", "e", " ", "a", "t", " ", "l", "e", "a", "s", "t", " ">>
           \o NumToString(c.testValue.n)
           \o <<" ", "c", "h", "a", "r", "a", "c", "t", "e", "r", "s", " ", "l", "o", "n", "g">>
      [] c.rule = "maxLength" ->
           c.attribute \o <<" ", "m", "u", "s", "t", " ", "b", "e", " ", "a", "t", " ", "m", "o", "s", "t", " ">>
           \o NumToString(c.testValue.n)
           \o <<" ", "c", "h", "a", "r", "a", "c", "t", "e", "r", "s", " ", "l", "o", "n", "g">>
      [] c.rule = "pattern" ->
           Quote \o Value(c).s \o Quote
           \o <<" ", "i", "s", " ", "n", "o", "t", " ", "a", " ", "v", "a", "l", "i", "d", " ">>
           \o c.attribute
      [] OTHER ->
           c.attribute \o <<" ", "m", "u", "s", "t", " ", "b", "e", " ", "u", "n", "i", "q", "u", "e">>

\* C8: a failing rule carries the custom message when one is supplied, and
\* otherwise the default text written out from its attribute name, test value
\* and attribute value.
C8_MessageText ==
    \A i \in DOMAIN promises :
       LET c == promises[i]
       IN (c.p.state = "rejected" /\ ~c.p.infra) =>
             c.p.reason = (IF Supplied(c) THEN c.message.s ELSE DefaultText(c))

\* C9: whenever validate() is waiting for its rules, or a lookup of a
\* validate() that did not throw has completed, every declared rule has
\* already been invoked.
C9_FireAllThenJoin ==
    (vstate = "settling" \/ (completed # <<>> /\ verr.kind # "TypeError")) =>
        IssuedAsDeclared

\* C9 witness: validate() is waiting with two lookups in flight at once.
C9_Witness ==
    /\ vstate = "settling"
    /\ Cardinality(InFlight) = 2
    /\ completed = <<>>

\* C10: the 'errors' array holds the message of every rule call that failed,
\* and is empty when none did.
C10_ErrorsHoldFailureMessages ==
    /\ \A i \in Failed : \E k \in DOMAIN errors : errors[k] = promises[i].p.reason
    /\ Failed = {} => errors = <<>>

====
